---- MODULE Spec2Model ----
(***************************************************************************)
(* pymlocate: reader of mlocate databases (src/pymlocate.py).              *)
(*                                                                         *)
(* Bytes are integers 0..255, byte strings are sequences of bytes, decoded *)
(* text is a sequence of Unicode code points.  A Python call is an         *)
(* operator returning a record whose field exc names the exception it      *)
(* raised ("" when it returned) and whose field pos is the stream cursor   *)
(* (f.tell()) it leaves behind.                                            *)
(***************************************************************************)
EXTENDS Integers, Sequences, FiniteSets, TLC

Min(a, b) == IF a < b THEN a ELSE b

\* Python's None, where it stands for a charset name.
None == "None"

(***************************************************************************)
(* Codecs used by detect_encoding and by bytes.decode / str(bytes).        *)
(***************************************************************************)

IsCont(b) == b >= 128 /\ b <= 191

\* bytes.decode("UTF-8"), strict: ok is FALSE where Python raises
\* UnicodeDecodeError (stray continuation, overlong form, surrogate,
\* code point above U+10FFFF, truncated sequence).
RECURSIVE utf8_decode(_, _, _)
utf8_decode(b, i, acc) ==
    IF i > Len(b) THEN [ok |-> TRUE, text |-> acc]
    ELSE LET c == b[i] IN
      IF c < 128 THEN utf8_decode(b, i + 1, Append(acc, c))
      ELSE IF c >= 194 /\ c <= 223 THEN
        IF i + 1 <= Len(b) /\ IsCont(b[i+1])
        THEN utf8_decode(b, i + 2, Append(acc, (c - 192) * 64 + (b[i+1] - 128)))
        ELSE [ok |-> FALSE, text |-> acc]
      ELSE IF c >= 224 /\ c <= 239 THEN
        IF /\ i + 2 <= Len(b)
           /\ IsCont(b[i+1]) /\ IsCont(b[i+2])
           /\ (c = 224 => b[i+1] >= 160)
           /\ (c = 237 => b[i+1] <= 159)
        THEN utf8_decode(b, i + 3,
               Append(acc, (c - 224) * 4096 + (b[i+1] - 128) * 64 + (b[i+2] - 128)))
        ELSE [ok |-> FALSE, text |-> acc]
      ELSE IF c >= 240 /\ c <= 244 THEN
        IF /\ i + 3 <= Len(b)
           /\ IsCont(b[i+1]) /\ IsCont(b[i+2]) /\ IsCont(b[i+3])
           /\ (c = 240 => b[i+1] >= 144)
           /\ (c = 244 => b[i+1] <= 143)
        THEN utf8_decode(b, i + 4,
               Append(acc, (c - 240) * 262144 + (b[i+1] - 128) * 4096
                           + (b[i+2] - 128) * 64 + (b[i+3] - 128)))
        ELSE [ok |-> FALSE, text |-> acc]
      ELSE [ok |-> FALSE, text |-> acc]

\* The windows-1252 code page, bytes 0x80..0x9F; 0 marks the five bytes the
\* codec leaves undefined (0x81, 0x8D, 0x8F, 0x90, 0x9D).
cp1252_table ==
    << 8364, 0, 8218, 402, 8222, 8230, 8224, 8225,
       710, 8240, 352, 8249, 338, 0, 381, 0,
       0, 8216, 8217, 8220, 8221, 8226, 8211, 8212,
       732, 8482, 353, 8250, 339, 0, 382, 376 >>

cp1252_char(c) == IF c >= 128 /\ c <= 159 THEN cp1252_table[c - 127] ELSE c

\* bytes.decode("windows-1252"), strict.
RECURSIVE cp1252_decode(_, _, _)
cp1252_decode(b, i, acc) ==
    IF i > Len(b) THEN [ok |-> TRUE, text |-> acc]
    ELSE IF cp1252_char(b[i]) = 0 /\ b[i] # 0 THEN [ok |-> FALSE, text |-> acc]
    ELSE cp1252_decode(b, i + 1, Append(acc, cp1252_char(b[i])))

\* bytes.decode("ISO-8859-1"): byte n is code point n.
latin1_decode(b) == [ok |-> TRUE, text |-> [i \in 1..Len(b) |-> b[i]]]

\* bytes.decode(charset) for the charsets detect_encoding can return.
decode(b, charset) ==
    IF charset = "UTF-8" THEN utf8_decode(b, 1, <<>>)
    ELSE IF charset = "windows-1252" THEN cp1252_decode(b, 1, <<>>)
    ELSE latin1_decode(b)

HexDigit(n) == IF n < 10 THEN 48 + n ELSE 87 + n

\* One byte as str(bytes) writes it; q is the quote character in use.
repr_byte(c, q) ==
    IF c = 92 THEN <<92, 92>>
    ELSE IF c = 9 THEN <<92, 116>>
    ELSE IF c = 10 THEN <<92, 110>>
    ELSE IF c = 13 THEN <<92, 114>>
    ELSE IF c = 39 /\ q = 39 THEN <<92, 39>>
    ELSE IF c >= 32 /\ c <= 126 THEN <<c>>
    ELSE <<92, 120, HexDigit(c \div 16), HexDigit(c % 16)>>

RECURSIVE repr_body(_, _, _)
repr_body(b, i, q) ==
    IF i > Len(b) THEN <<>> ELSE repr_byte(b[i], q) \o repr_body(b, i + 1, q)

\* str(bytebuf) of Python 3: the literal b'...' (b"..." when the bytes hold
\* a single quote and no double quote).
str_bytes(b) ==
    LET q == IF (\E i \in 1..Len(b) : b[i] = 39) /\ ~(\E i \in 1..Len(b) : b[i] = 34)
             THEN 34 ELSE 39
    IN  <<98, q>> \o repr_body(b, 1, q) \o <<q>>

\* filename.decode succeeds for UTF-8, windows-1252; otherwise chardet.detect
\* is called.  det is the state of the chardet module: "unavailable" when the
\* import failed (the name chardet is unbound), else the encoding its detect
\* reports for such input (None or "ISO-8859-1").
detect_encoding(filename, det) ==
    IF utf8_decode(filename, 1, <<>>).ok THEN [exc |-> "", charset |-> "UTF-8"]
    ELSE IF cp1252_decode(filename, 1, <<>>).ok
         THEN [exc |-> "", charset |-> "windows-1252"]
    ELSE IF det = "unavailable" THEN [exc |-> "NameError", charset |-> None]
    ELSE [exc |-> "", charset |-> det]

(***************************************************************************)
(* Stream and struct helpers.                                              *)
(***************************************************************************)

\* f.read(n) at cursor p: the bytes returned (fewer than n at end of file)
\* and the cursor afterwards.
read(f, p, n) ==
    [data |-> SubSeq(f, p + 1, Min(p + n, Len(f))), pos |-> Min(p + n, Len(f))]

\* The unsigned big-endian value of at most three bytes, or of four bytes
\* with the top bit clear.
RECURSIVE unpack_be(_)
unpack_be(b) ==
    IF Len(b) = 0 THEN 0
    ELSE unpack_be(SubSeq(b, 1, Len(b) - 1)) * 256 + b[Len(b)]

\* unpack(">Q", b): eight bytes, big-endian, unsigned.  The value is written
\* with three digits in base 2^24, most significant first, because it does
\* not fit the integers the checker computes with.
unpack_Q(b) ==
    << unpack_be(SubSeq(b, 1, 2)), unpack_be(SubSeq(b, 3, 5)), unpack_be(SubSeq(b, 6, 8)) >>

\* unpack(">i", b): four bytes, big-endian, two's complement.
unpack_i(b) ==
    IF b[1] >= 128
    THEN (b[1] - 256) * 16777216 + unpack_be(SubSeq(b, 2, 4))
    ELSE unpack_be(b)

\* bytes.split(sep) for a one-byte separator: one piece more than there are
\* separators, empty pieces kept.
RECURSIVE split_from(_, _, _, _)
split_from(b, sep, i, cur) ==
    IF i > Len(b) THEN <<cur>>
    ELSE IF b[i] = sep THEN <<cur>> \o split_from(b, sep, i + 1, <<>>)
    ELSE split_from(b, sep, i + 1, Append(cur, b[i]))

split(b, sep) == split_from(b, sep, 1, <<>>)

\* lst[:-1]
but_last(lst) == SubSeq(lst, 1, Len(lst) - 1)

(***************************************************************************)
(* zts and zts_list.                                                       *)
(***************************************************************************)

\* The read loop of zts: c has not been read yet, buf and l are the loop's
\* variables.  unpack("c", b'') raises struct.error at end of file.
RECURSIVE zts_read(_, _, _, _)
zts_read(f, p, buf, l) ==
    IF p >= Len(f) THEN [exc |-> "struct.error", buf |-> buf, l |-> l, pos |-> Len(f)]
    ELSE IF f[p + 1] = 0 THEN [exc |-> "", buf |-> buf, l |-> l, pos |-> p + 1]
    ELSE zts_read(f, p + 1, Append(buf, f[p + 1]), l + 1)

\* zts after its read loop, the charset cs detected for a non-empty buf: the
\* tuple returned has two elements when cs is None, three otherwise.
zts_decoded(r, cs) ==
    IF cs.exc # "" THEN [exc |-> cs.exc, val |-> <<>>, pos |-> r.pos]
    ELSE IF cs.charset = None
         THEN [exc |-> "", val |-> << str_bytes(r.buf), r.l >>, pos |-> r.pos]
    ELSE [exc |-> "", val |-> << decode(r.buf, cs.charset).text, r.l, cs.charset >>,
          pos |-> r.pos]

\* zts after its read loop r: an empty buf is returned as ("", l).
zts_return(r, det) ==
    IF r.exc # "" THEN [exc |-> r.exc, val |-> <<>>, pos |-> r.pos]
    ELSE IF Len(r.buf) = 0 THEN [exc |-> "", val |-> << <<>>, r.l >>, pos |-> r.pos]
    ELSE zts_decoded(r, detect_encoding(r.buf, det))

\* val is the tuple zts returns.
zts(f, p, det) == zts_return(zts_read(f, p, <<>>, 1), det)

RECURSIVE zts_list_loop(_, _, _, _, _, _)

\* zts_list_step counting the entry's bytes without the byte read into c.
zts_list_step_short(f, det, c, lst, l, s) ==
    IF s.exc # "" THEN [exc |-> s.exc, val |-> <<>>, pos |-> s.pos]
    ELSE IF c >= 128 THEN [exc |-> "UnicodeDecodeError", val |-> <<>>, pos |-> s.pos]
    ELSE IF s.pos >= Len(f) THEN [exc |-> "struct.error", val |-> <<>>, pos |-> Len(f)]
    ELSE zts_list_loop(f, s.pos + 1, det, f[s.pos + 1],
                       Append(lst, <<c>> \o s.val[1]), l + s.val[2])

\* The body of the while loop of zts_list, s being what zts(f) gave:
\* entry = c.decode("UTF-8") + s[0]; c = next byte; l += s[1] + 1.
zts_list_step(f, det, c, lst, l, s) ==
    IF s.exc # "" THEN [exc |-> s.exc, val |-> <<>>, pos |-> s.pos]
    ELSE IF c >= 128 THEN [exc |-> "UnicodeDecodeError", val |-> <<>>, pos |-> s.pos]
    ELSE IF s.pos >= Len(f) THEN [exc |-> "struct.error", val |-> <<>>, pos |-> Len(f)]
    ELSE zts_list_loop(f, s.pos + 1, det, f[s.pos + 1],
                       Append(lst, <<c>> \o s.val[1]), l + s.val[2] + 1)

\* The while loop of zts_list; c is the byte read last, p the cursor after it.
zts_list_loop(f, p, det, c, lst, l) ==
    IF c = 0 THEN [exc |-> "", val |-> <<lst, l>>, pos |-> p]
    ELSE zts_list_step(f, det, c, lst, l, zts(f, p, det))

zts_list(f, p, det) ==
    IF p >= Len(f) THEN [exc |-> "struct.error", val |-> <<>>, pos |-> Len(f)]
    ELSE zts_list_loop(f, p + 1, det, f[p + 1], <<>>, 1)

(***************************************************************************)
(* Entries.                                                                *)
(***************************************************************************)

LocateDBSubEntry(entry_type, filename, charset) ==
    [entry_type |-> entry_type, filename |-> filename, charset |-> charset]

LocateDBEntry(dirname, subentries, time_1, time_2) ==
    [dirname |-> dirname, subentries |-> subentries, time_1 |-> time_1, time_2 |-> time_2]

\* file_entry taking every named child for a file.
file_entry_file(stype, res) ==
    IF res.exc # "" THEN [exc |-> res.exc, entry |-> <<>>, pos |-> res.pos]
    ELSE IF Len(res.val) < 3 THEN [exc |-> "IndexError", entry |-> <<>>, pos |-> res.pos]
    ELSE [exc |-> "", entry |-> LocateDBSubEntry("file", res.val[1], res.val[3]),
          pos |-> res.pos]

\* path = res[0]; charset = res[2], res being what zts(f) gave: res[2] of a
\* tuple of two elements raises IndexError.
file_entry(stype, res) ==
    IF res.exc # "" THEN [exc |-> res.exc, entry |-> <<>>, pos |-> res.pos]
    ELSE IF Len(res.val) < 3 THEN [exc |-> "IndexError", entry |-> <<>>, pos |-> res.pos]
    ELSE [exc |-> "", entry |-> LocateDBSubEntry(stype, res.val[1], res.val[3]),
          pos |-> res.pos]

read_file_entry(f, p, det) ==
    IF p >= Len(f) THEN [exc |-> "struct.error", entry |-> <<>>, pos |-> Len(f)]
    ELSE IF f[p + 1] = 0 \/ f[p + 1] = 1
         THEN file_entry(IF f[p + 1] = 0 THEN "file" ELSE "subdir", zts(f, p + 1, det))
    ELSE IF f[p + 1] = 2
         THEN [exc |-> "", entry |-> LocateDBSubEntry("dirterm", None, None), pos |-> p + 1]
    ELSE [exc |-> "RuntimeError", entry |-> <<>>, pos |-> p + 1]

RECURSIVE read_entries(_, _, _, _)

\* The body of the while loop of read_content_entry, e being the entry read.
read_entries_step(f, det, pcontents, e) ==
    IF e.exc # "" THEN [exc |-> e.exc, pcontents |-> pcontents, pos |-> e.pos]
    ELSE IF e.entry.entry_type = "dirterm"
         THEN [exc |-> "", pcontents |-> pcontents, pos |-> e.pos]
    ELSE read_entries(f, e.pos, det, Append(pcontents, e.entry))

\* The while loop of read_content_entry.
read_entries(f, p, det, pcontents) ==
    read_entries_step(f, det, pcontents, read_file_entry(f, p, det))

\* return LocateDBEntry(pname, pcontents, time_1, time_2)
content_entry(hdr, pname, c) ==
    IF c.exc # "" THEN [exc |-> c.exc, entry |-> <<>>, pos |-> c.pos]
    ELSE [exc |-> "",
          entry |-> LocateDBEntry(pname.val[1], c.pcontents,
                                  unpack_Q(SubSeq(hdr.data, 1, 8)),
                                  unpack_i(SubSeq(hdr.data, 9, 12))),
          pos |-> c.pos]

\* read_content_entry after pname = zts(f).
content_children(f, det, hdr, pname) ==
    IF pname.exc # "" THEN [exc |-> pname.exc, entry |-> <<>>, pos |-> pname.pos]
    ELSE content_entry(hdr, pname, read_entries(f, pname.pos, det, <<>>))

\* read_content_entry after the 16 bytes of time and padding were read.
content_path(f, det, hdr) ==
    IF Len(hdr.data) < 16 THEN [exc |-> "struct.error", entry |-> <<>>, pos |-> hdr.pos]
    ELSE content_children(f, det, hdr, zts(f, hdr.pos, det))

read_content_entry(f, p, det) == content_path(f, det, read(f, p, 16))

(***************************************************************************)
(* fast_reader.  Python lists are indexed from 0, sequences from 1: j and  *)
(* i below are the Python indices plus one.                                *)
(***************************************************************************)

\* fast_join without putting back the 0x02 the split took away.
RECURSIVE fast_join_bare(_, _, _)
fast_join_bare(dtsplit, j, dt) ==
    IF Len(dt) >= 16 THEN [exc |-> "", dt |-> dt, j |-> j]
    ELSE IF j + 1 > Len(dtsplit) THEN [exc |-> "IndexError", dt |-> dt, j |-> j + 1]
    ELSE fast_join_bare(dtsplit, j + 1, dt \o dtsplit[j + 1])

\* while len(dt) < 16: j += 1; dt += b'\x02' + dtsplit[j]
RECURSIVE fast_join(_, _, _)
fast_join(dtsplit, j, dt) ==
    IF Len(dt) >= 16 THEN [exc |-> "", dt |-> dt, j |-> j]
    ELSE IF j + 1 > Len(dtsplit) THEN [exc |-> "IndexError", dt |-> dt, j |-> j + 1]
    ELSE fast_join(dtsplit, j + 1, dt \o <<2>> \o dtsplit[j + 1])

\* b.decode(charset), or str(b) when charset is None.
fast_decoded(b, cs) ==
    IF cs.exc # "" THEN [exc |-> cs.exc, text |-> <<>>, charset |-> None]
    ELSE IF cs.charset = None THEN [exc |-> "", text |-> str_bytes(b), charset |-> None]
    ELSE [exc |-> "", text |-> decode(b, cs.charset).text, charset |-> cs.charset]

\* charset = detect_encoding(b), then the decoding.
fast_decode(b, det) == fast_decoded(b, detect_encoding(b, det))

RECURSIVE fast_children(_, _, _, _)

\* pcontents.append(LocateDBSubEntry(stype, path, charset)), d being the
\* decoded name, and on to field i.
fast_child(filesplit, i, det, pcontents, stype, d) ==
    IF d.exc # "" THEN [exc |-> d.exc, pcontents |-> pcontents]
    ELSE fast_children(filesplit, i, det,
           Append(pcontents, LocateDBSubEntry(stype, d.text, d.charset)))

\* while i < len(filesplit): an empty field announces a file whose name is
\* the next field; any other field is a subdirectory, first byte dropped.
fast_children(filesplit, i, det, pcontents) ==
    IF i > Len(filesplit) THEN [exc |-> "", pcontents |-> pcontents]
    ELSE IF filesplit[i] = <<>> THEN
        IF i + 1 > Len(filesplit) THEN [exc |-> "IndexError", pcontents |-> pcontents]
        ELSE fast_child(filesplit, i + 2, det, pcontents, "file",
                        fast_decode(filesplit[i + 1], det))
    ELSE fast_child(filesplit, i + 1, det, pcontents, "subdir",
                    fast_decode(SubSeq(filesplit[i], 2, Len(filesplit[i])), det))

\* contents.append(LocateDBEntry(pname, pcontents, time_1, time_2))
fast_entry_made(dt, pname, c) ==
    IF c.exc # "" THEN [exc |-> c.exc, entry |-> <<>>]
    ELSE [exc |-> "",
          entry |-> LocateDBEntry(pname.text, c.pcontents,
                                  unpack_Q(SubSeq(dt, 1, 8)), unpack_i(SubSeq(dt, 9, 12)))]

\* The chunk dt after its path was decoded into pname.
fast_entry_children(dt, det, filesplit, pname) ==
    IF pname.exc # "" THEN [exc |-> pname.exc, entry |-> <<>>]
    ELSE fast_entry_made(dt, pname, fast_children(filesplit, 2, det, <<>>))

\* bpname = filesplit[0] and its decoding.
fast_entry_path(dt, det, filesplit) ==
    IF Len(filesplit) = 0 THEN [exc |-> "IndexError", entry |-> <<>>]
    ELSE fast_entry_children(dt, det, filesplit, fast_decode(filesplit[1], det))

\* The body of the loop over dtsplit for one joined chunk dt.
fast_entry(dt, det) ==
    fast_entry_path(dt, det, but_last(split(SubSeq(dt, 17, Len(dt)), 0)))

RECURSIVE fast_loop(_, _, _, _)

\* contents.append(...); j += 1, e being the entry made of the chunk.
fast_loop_append(dtsplit, j, det, contents, e) ==
    IF e.exc # "" THEN [exc |-> e.exc, contents |-> contents]
    ELSE fast_loop(dtsplit, j + 1, det, Append(contents, e.entry))

\* The loop body after the chunk was joined into jn.
fast_loop_entry(dtsplit, det, contents, jn) ==
    IF jn.exc # "" THEN [exc |-> jn.exc, contents |-> contents]
    ELSE fast_loop_append(dtsplit, jn.j, det, contents, fast_entry(jn.dt, det))

\* while j < len(dtsplit)
fast_loop(dtsplit, j, det, contents) ==
    IF j > Len(dtsplit) THEN [exc |-> "", contents |-> contents]
    ELSE fast_loop_entry(dtsplit, det, contents, fast_join(dtsplit, j, dtsplit[j]))

\* What fast_reader returns or raises; the whole file has been read.
fast_result(f, r) ==
    [exc |-> r.exc, contents |-> IF r.exc = "" THEN r.contents ELSE <<>>, pos |-> Len(f)]

fast_reader(f, p, det) ==
    fast_result(f, fast_loop(but_last(split(SubSeq(f, p + 1, Len(f)), 2)), 1, det, <<>>))

(***************************************************************************)
(* Databases the loader is run on.  A database is described by its parts   *)
(* and written out byte for byte as mlocate.db(5) lays it out.             *)
(***************************************************************************)

\* Children of the varied directory record.
MaxChildren == 2
\* Bytes removed from the end of the file.
MaxCut == 1
\* Plain records around the varied one.
MaxPlain == 1
\* Length of the bytes standing where the configuration block is.
MaxCfgLen == 3
\* Largest configuration block size written in the header.
MaxCB == 4

\* mcode != b'\x00mlocate'
MagicCode == <<0, 109, 108, 111, 99, 97, 116, 101>>

\* 16 bytes of directory time and padding, with the values they encode.
Headers ==
    { [bytes |-> <<0,0,0,0,0,0,0,0, 0,0,0,0, 0,0,0,0>>, time_1 |-> <<0, 0, 0>>, time_2 |-> 0],
      [bytes |-> <<0,0,0,0,0,0,0,2, 0,2,0,0, 0,0,0,0>>, time_1 |-> <<0, 0, 2>>, time_2 |-> 131072],
      [bytes |-> <<0,0,0,0,0,1,0,0, 255,255,255,255, 0,0,2,0>>,
       time_1 |-> <<0, 0, 65536>>, time_2 |-> -1] }

PlainHeader == CHOOSE h \in Headers : h.time_1 = <<0, 0, 0>>

\* Names: raw bytes, the text and charset a reader should give them
\* (charset None: no decoding is known).
N_atxt  == [bytes |-> <<97, 46, 116, 120, 116>>, text |-> <<97, 46, 116, 120, 116>>,
            charset |-> "UTF-8"]
N_sub   == [bytes |-> <<115, 117, 98>>, text |-> <<115, 117, 98>>, charset |-> "UTF-8"]
N_tmp   == [bytes |-> <<47, 116, 109, 112>>, text |-> <<47, 116, 109, 112>>,
            charset |-> "UTF-8"]
N_root  == [bytes |-> <<47>>, text |-> <<47>>, charset |-> "UTF-8"]
N_utf8  == [bytes |-> <<195, 169>>, text |-> <<233>>, charset |-> "UTF-8"]
N_euro  == [bytes |-> <<128>>, text |-> <<8364>>, charset |-> "windows-1252"]
N_raw   == [bytes |-> <<129>>, text |-> <<98, 39, 92, 120, 56, 49, 39>>, charset |-> None]
N_empty == [bytes |-> <<>>, text |-> <<>>, charset |-> None]
N_a2b   == [bytes |-> <<97, 2, 98>>, text |-> <<97, 2, 98>>, charset |-> "UTF-8"]

\* Child records: discriminator byte and name.
Children ==
    { [disc |-> 0, name |-> N_utf8], [disc |-> 1, name |-> N_euro],
      [disc |-> 0, name |-> N_raw],  [disc |-> 0, name |-> N_empty],
      [disc |-> 3, name |-> N_sub],  [disc |-> 0, name |-> N_a2b] }

Paths == {N_tmp, N_raw}

ChildLists == UNION { [1..n -> Children] : n \in 0..MaxChildren }

VariedRecords ==
    { [hdr |-> h, path |-> p, children |-> c] :
        h \in Headers, p \in Paths, c \in ChildLists }

\* The record of the minimal database: "/tmp" holding a.txt and sub.
PlainRecord ==
    [hdr |-> PlainHeader, path |-> N_tmp,
     children |-> << [disc |-> 0, name |-> N_atxt], [disc |-> 1, name |-> N_sub] >>]

Copies(r, n) == [i \in 1..n |-> r]

\* Byte strings over a small alphabet, up to length n.
ByteStrings(n) == UNION { [1..k -> {0, 97, 233}] : k \in 0..n }

RECURSIVE concat(_)
concat(ss) == IF Len(ss) = 0 THEN <<>> ELSE Head(ss) \o concat(Tail(ss))

\* pack(">i", n)
pack_i(n) ==
    << (n \div 16777216) % 256, (n \div 65536) % 256, (n \div 256) % 256, n % 256 >>

ser_child(c) ==
    IF c.disc = 2 THEN <<2>> ELSE <<c.disc>> \o c.name.bytes \o <<0>>

ser_record(r) ==
    r.hdr.bytes \o r.path.bytes \o <<0>>
      \o concat([i \in 1..Len(r.children) |-> ser_child(r.children[i])]) \o <<2>>

ser_head(d) ==
    d.magic \o pack_i(d.cblocksize) \o <<0, 0, 0, 0>> \o d.root.bytes \o <<0>> \o d.cfg

ser_body(d) == concat([i \in 1..Len(d.records) |-> ser_record(d.records[i])])

Serialize(d) ==
    LET whole == ser_head(d) \o ser_body(d)
    IN  SubSeq(whole, 1, Len(whole) - d.cut)

\* Databases with a sound head, the directory records varied.
BodyDBs ==
    { [magic |-> MagicCode, cblocksize |-> 1, root |-> N_root, cfg |-> <<0>>,
       records |-> Copies(PlainRecord, pre) \o <<r>> \o Copies(PlainRecord, post),
       cut |-> cut] :
        r \in VariedRecords, cut \in 0..MaxCut,
        pre \in 0..MaxPlain, post \in 0..MaxPlain }

\* Databases with a sound magic code, the rest of the head varied.
HeadDBs ==
    { [magic |-> MagicCode, cblocksize |-> cb, root |-> rt, cfg |-> cfg,
       records |-> Copies(PlainRecord, n), cut |-> 0] :
        cb \in 0..MaxCB, rt \in {N_root, N_empty, N_raw},
        cfg \in ByteStrings(MaxCfgLen), n \in 0..1 }

\* Magic codes that are wrong in the first byte, wrong in the last, cut short.
BadMagics ==
    { <<1, 109, 108, 111, 99, 97, 116, 101>>,
      <<0, 109, 108, 111, 99, 97, 116, 102>>, <<0, 109, 108, 111>> }

MagicDBs ==
    { [magic |-> m, cblocksize |-> 1, root |-> N_root, cfg |-> <<0>>,
       records |-> Copies(PlainRecord, n), cut |-> 0] :
        m \in BadMagics, n \in 0..1 }

DBs ==
    { d \in BodyDBs : Len(d.records) <= MaxPlain + 1 } \cup HeadDBs \cup MagicDBs

(***************************************************************************)
(* open_locate_db as a state machine.                                      *)
(***************************************************************************)

VARIABLES
    db,           \* the database the file was written from
    file,         \* the bytes of the file
    fast_mode,    \* argument of open_locate_db
    chardet,      \* the chardet module: "unavailable", or what detect reports
    pc,           \* position in open_locate_db
    pos,          \* f.tell()
    cblocksize,   \* header field
    basepath,     \* tuple returned by zts for the root path
    l,            \* bytes of configuration block accounted for
    config,       \* list returned by the last zts_list call
    ll,           \* byte count returned by the last zts_list call
    full_config,  \* configuration entries collected
    contents,     \* directory entries read (the value returned)
    outcome       \* "running", "returned", or the exception that ended the call

vars == << db, file, fast_mode, chardet, pc, pos, cblocksize, basepath, l,
           config, ll, full_config, contents, outcome >>

Init ==
    /\ db \in DBs
    /\ file = Serialize(db)
    /\ fast_mode \in BOOLEAN
    /\ chardet \in {"unavailable", None, "ISO-8859-1"}
    /\ pc = "open"
    /\ pos = 0
    /\ cblocksize = 0
    /\ basepath = <<>>
    /\ l = 0
    /\ config = <<>>
    /\ ll = 0
    /\ full_config = <<>>
    /\ contents = <<>>
    /\ outcome = "running"

\* An exception leaves open_locate_db; the with statement closes the file.
Raise(exc, p) ==
    /\ pc' = "done"
    /\ outcome' = exc
    /\ pos' = p

\* The comparison cut to the first 7 bytes.
magic_ok_7(mcode) == SubSeq(mcode, 1, 7) = SubSeq(MagicCode, 1, 7)

\* The magic code compared with the 8 bytes read.
magic_ok(mcode) == mcode = MagicCode

\* r is what f.read(8) gave.
CheckMagic(r) ==
    IF Len(r.data) < 8 THEN Raise("struct.error", r.pos)
    ELSE IF ~magic_ok(r.data) THEN Raise("SystemExit", r.pos)
    ELSE pc' = "header" /\ pos' = r.pos /\ outcome' = outcome

\* mcode, = unpack("8s", f.read(8)); exit unless it is the magic code.
ReadMagic ==
    /\ pc = "open"
    /\ CheckMagic(read(file, pos, 8))
    /\ UNCHANGED << db, file, fast_mode, chardet, cblocksize, basepath, l,
                    config, ll, full_config, contents >>

\* r is what the reads of cblocksize, fversion, rvis, padding gave.
UnpackHeader(r) ==
    IF Len(r.data) < 8
    THEN Raise("struct.error", r.pos) /\ cblocksize' = cblocksize
    ELSE /\ cblocksize' = unpack_i(SubSeq(r.data, 1, 4))
         /\ pc' = "basepath" /\ pos' = r.pos /\ outcome' = outcome

\* cblocksize, fversion, rvis, padding
ReadHeader ==
    /\ pc = "header"
    /\ UnpackHeader(read(file, pos, 8))
    /\ UNCHANGED << db, file, fast_mode, chardet, basepath, l,
                    config, ll, full_config, contents >>

\* r is what zts(f) gave.
SetBasePath(r) ==
    IF r.exc # "" THEN Raise(r.exc, r.pos) /\ basepath' = basepath
    ELSE basepath' = r.val /\ pc' = "config" /\ pos' = r.pos /\ outcome' = outcome

\* basepath = zts(f)
ReadBasePath ==
    /\ pc = "basepath"
    /\ SetBasePath(zts(file, pos, chardet))
    /\ UNCHANGED << db, file, fast_mode, chardet, cblocksize, l,
                    config, ll, full_config, contents >>

\* config, ll = r; full_config.extend(config); l += ll
ExtendConfig(r) ==
    IF r.exc # ""
    THEN Raise(r.exc, r.pos) /\ UNCHANGED << config, ll, full_config, l >>
    ELSE /\ config' = r.val[1]
         /\ ll' = r.val[2]
         /\ full_config' = full_config \o r.val[1]
         /\ l' = l + r.val[2]
         /\ pos' = r.pos
         /\ UNCHANGED << pc, outcome >>

\* One turn of: while l < cblocksize: config, ll = zts_list(f); ...
ReadConfig ==
    /\ pc = "config"
    /\ l < cblocksize
    /\ ExtendConfig(zts_list(file, pos, chardet))
    /\ UNCHANGED << db, file, fast_mode, chardet, cblocksize, basepath, contents >>

\* The loop is left as soon as l < cblocksize fails.
config_done == l >= cblocksize

\* if not fast_mode: ... else fast_reader
Dispatch ==
    /\ pc = "config"
    /\ config_done
    /\ pc' = IF fast_mode THEN "fast" ELSE "sequential"
    /\ UNCHANGED << db, file, fast_mode, chardet, pos, cblocksize, basepath, l,
                    config, ll, full_config, contents, outcome >>

\* contents.append(entry), r being what read_content_entry(f) gave.
AppendContent(r) ==
    IF r.exc # "" THEN Raise(r.exc, r.pos) /\ contents' = contents
    ELSE /\ contents' = Append(contents, r.entry)
         /\ pos' = r.pos
         /\ UNCHANGED << pc, outcome >>

\* One turn of: while f.tell() < st_size: contents.append(read_content_entry(f))
ReadContent ==
    /\ pc = "sequential"
    /\ pos < Len(file)
    /\ AppendContent(read_content_entry(file, pos, chardet))
    /\ UNCHANGED << db, file, fast_mode, chardet, cblocksize, basepath, l,
                    config, ll, full_config >>

\* return contents
ReturnContents ==
    /\ pc = "sequential"
    /\ pos >= Len(file)
    /\ pc' = "done"
    /\ outcome' = "returned"
    /\ UNCHANGED << db, file, fast_mode, chardet, pos, cblocksize, basepath, l,
                    config, ll, full_config, contents >>

\* r is what fast_reader(f) gave.
ReturnFast(r) ==
    /\ pc' = "done"
    /\ pos' = r.pos
    /\ outcome' = IF r.exc # "" THEN r.exc ELSE "returned"
    /\ contents' = r.contents

\* return fast_reader(f)
FastRead ==
    /\ pc = "fast"
    /\ ReturnFast(fast_reader(file, pos, chardet))
    /\ UNCHANGED << db, file, fast_mode, chardet, cblocksize, basepath, l,
                    config, ll, full_config >>

Next ==
    \/ ReadMagic
    \/ ReadHeader
    \/ ReadBasePath
    \/ ReadConfig
    \/ Dispatch
    \/ ReadContent
    \/ ReturnContents
    \/ FastRead

Spec == Init /\ [][Next]_vars

TypeOK ==
    /\ pc \in {"open", "header", "basepath", "config", "sequential", "fast", "done"}
    /\ pos \in 0..Len(file)
    /\ (outcome = "running") = (pc # "done")

(***************************************************************************)
(* What the file holds, read off the database it was written from.         *)
(***************************************************************************)

Done == pc = "done"

\* The sequential loop of open_locate_db run to its end from cursor p.
RECURSIVE sequential_reader(_, _, _, _)
sequential_reader(f, p, det, acc) ==
    IF p >= Len(f) THEN [exc |-> "", contents |-> acc]
    ELSE LET r == read_content_entry(f, p, det) IN
         IF r.exc # "" THEN [exc |-> r.exc, contents |-> <<>>]
         ELSE sequential_reader(f, r.pos, det, Append(acc, r.entry))

HasByte(b, c) == \E i \in 1..Len(b) : b[i] = c

\* The bytes b are whole terminated-string lists, one after the other.
ListsOnly(b) ==
    \/ b = <<>>
    \/ b = <<0>>
    \/ Len(b) >= 2 /\ b[Len(b)] = 0 /\ b[Len(b) - 1] = 0

\* The header's cblocksize is the length of the configuration block, which
\* is made of whole lists of entries that start with an ASCII byte.
HeadSound(d) ==
    /\ d.magic = MagicCode
    /\ d.cblocksize = Len(d.cfg)
    /\ ListsOnly(d.cfg)
    /\ \A i \in 1..Len(d.cfg) :
          (i = 1 \/ d.cfg[i - 1] = 0) => d.cfg[i] < 128

\* Where the directory records start in the file.
BodyStart(d) == Len(ser_head(d))

Decodable(n) == n.charset # None
NonEmpty(n) == n.bytes # <<>>
NoTerm(n) == ~HasByte(n.bytes, 2)

AllNames(d, Ok(_)) ==
    \A i \in 1..Len(d.records) :
       /\ Ok(d.records[i].path)
       /\ \A j \in 1..Len(d.records[i].children) : Ok(d.records[i].children[j].name)

\* Every record is whole and every child is a file or a subdirectory.
RecordsSound(d) ==
    /\ d.cut = 0
    /\ \A i \in 1..Len(d.records) :
         \A j \in 1..Len(d.records[i].children) :
            d.records[i].children[j].disc \in {0, 1}

PlainName(n) == NonEmpty(n) /\ Decodable(n) /\ NoTerm(n)
\* A name a file system can hold, whatever its encoding.
RealName(n) == NonEmpty(n) /\ NoTerm(n)
PlainOrEmptyName(n) == PlainName(n) \/ n.bytes = <<>>

WellFormed(d) ==
    /\ HeadSound(d)
    /\ PlainName(d.root)
    /\ RecordsSound(d)
    /\ AllNames(d, PlainName)

ExpectedSub(c) ==
    [entry_type |-> IF c.disc = 0 THEN "file" ELSE "subdir",
     filename |-> c.name.text, charset |-> c.name.charset]

ExpectedEntry(r) ==
    [dirname |-> r.path.text,
     subentries |-> [j \in 1..Len(r.children) |-> ExpectedSub(r.children[j])],
     time_1 |-> r.hdr.time_1, time_2 |-> r.hdr.time_2]

Expected(d) == [i \in 1..Len(d.records) |-> ExpectedEntry(d.records[i])]

\* magic code, cblocksize = 1, root "/", one empty configuration list, and
\* the record "/tmp" with timestamp 0 holding file a.txt and subdirectory sub.
MinimalFile ==
    << 0, 109, 108, 111, 99, 97, 116, 101,   0, 0, 0, 1,   0, 0, 0, 0,
       47, 0,   0,
       0, 0, 0, 0, 0, 0, 0, 0,  0, 0, 0, 0,  0, 0, 0, 0,
       47, 116, 109, 112, 0,
       0, 97, 46, 116, 120, 116, 0,
       1, 115, 117, 98, 0,
       2 >>

MinimalContents ==
    << [dirname |-> <<47, 116, 109, 112>>,
        subentries |->
          << [entry_type |-> "file", filename |-> <<97, 46, 116, 120, 116>>,
              charset |-> "UTF-8"],
             [entry_type |-> "subdir", filename |-> <<115, 117, 98>>,
              charset |-> "UTF-8"] >>,
        time_1 |-> <<0, 0, 0>>, time_2 |-> 0] >>

(***************************************************************************)
(* Properties.                                                             *)
(***************************************************************************)

\* What the other reading mode makes of the directory records of the file.
OtherMode ==
    IF fast_mode THEN sequential_reader(file, BodyStart(db), chardet, <<>>)
    ELSE LET r == fast_reader(file, BodyStart(db), chardet)
         IN  [exc |-> r.exc, contents |-> r.contents]

\* C1: on a valid database (sound head, whole records, children that are
\* files or subdirectories with non-empty names) in which no path and no
\* child name holds the byte 0x02, the sequential and the fast mode end
\* alike: both return, and they return the same entries.
C1_ModesAgree ==
    (Done /\ HeadSound(db) /\ PlainName(db.root) /\ RecordsSound(db)
          /\ AllNames(db, RealName))
      => /\ (outcome = "returned") = (OtherMode.exc = "")
         /\ outcome = "returned" => contents = OtherMode.contents

\* C2: the configuration loop is left only with exactly cblocksize bytes
\* accounted for; otherwise the load fails before any directory is parsed.
C2_ConfigExact ==
    (pc \in {"sequential", "fast"} \/ (Done /\ outcome = "returned"))
      => l = cblocksize

\* Some chunk between two 0x02 bytes of the directory records is shorter
\* than the 16 bytes of time and padding.
ShortChunk ==
    LET dtsplit == but_last(split(SubSeq(file, BodyStart(db) + 1, Len(file)), 2))
    IN  \E j \in 1..Len(dtsplit) : Len(dtsplit[j]) < 16

ChildNameHasTerm(d) ==
    \E i \in 1..Len(d.records) : \E j \in 1..Len(d.records[i].children) :
       HasByte(d.records[i].children[j].name.bytes, 2)

HeaderHasTerm(d) ==
    \E i \in 1..Len(d.records) : HasByte(d.records[i].hdr.bytes, 2)

\* C3, as stated: when a child name holds 0x02 and the split leaves a chunk
\* shorter than 16 bytes, fast mode returns what the sequential reader
\* returns.
C3_NameRejoined ==
    (Done /\ fast_mode /\ HeadSound(db) /\ ChildNameHasTerm(db) /\ ShortChunk
          /\ OtherMode.exc = "")
      => outcome = "returned" /\ contents = OtherMode.contents

\* C3, amended: when the 16 bytes of time and padding of a record hold 0x02
\* (the split leaves a chunk shorter than 16 bytes) and no path or child name
\* does, fast mode returns what the sequential reader returns, without
\* raising.
C3_HeaderRejoined ==
    (Done /\ fast_mode /\ HeadSound(db) /\ HeaderHasTerm(db)
          /\ AllNames(db, NoTerm) /\ OtherMode.exc = "")
      => outcome = "returned" /\ contents = OtherMode.contents

C3_Witness ==
    /\ Done /\ fast_mode /\ HeadSound(db) /\ HeaderHasTerm(db) /\ ShortChunk
    /\ AllNames(db, NoTerm) /\ OtherMode.exc = ""
    /\ outcome = "returned" /\ Len(contents) = 2
    /\ contents[2].time_1 = <<0, 0, 2>> /\ contents[2].time_2 = 131072

BadMagic == Len(file) >= 8 /\ SubSeq(file, 1, 8) # <<0, 109, 108, 111, 99, 97, 116, 101>>

\* C4: with a wrong magic code the load ends at once in a failure, in
\* either mode: the cursor stays behind the 8 bytes of the magic code, no
\* header field, root path or configuration is read, no entry is produced.
C4_BadMagicFails ==
    (BadMagic /\ pc # "open")
      => /\ Done /\ outcome = "SystemExit"
         /\ pos = 8
         /\ cblocksize = 0 /\ basepath = <<>> /\ l = 0 /\ full_config = <<>>
         /\ contents = <<>>

C4_Witness ==
    BadMagic /\ Done /\ outcome = "SystemExit" /\ fast_mode /\ Len(db.records) = 1

RECURSIVE SumLen1(_)
SumLen1(ss) == IF Len(ss) = 0 THEN 0 ELSE Len(Head(ss)) + 1 + SumLen1(Tail(ss))

\* C6: the counts returned are the bytes consumed.  While the configuration
\* is read the cursor is 16 + the count zts returned for the root path + the
\* counts zts_list returned; zts's count is the length of the root path plus
\* its NUL; the bytes the last zts_list call consumed are its entries, each
\* with its NUL, and the closing NUL, ll in all (1 for an empty list).
C6_CountsAreBytes ==
    pc = "config" =>
      /\ basepath[2] = Len(db.root.bytes) + 1
      /\ pos = 16 + basepath[2] + l
      /\ ll > 0 =>
           LET parts == split(SubSeq(file, pos - ll + 1, pos), 0)
               n == Len(config)
           IN  /\ Len(parts) = n + 2
               /\ parts[n + 1] = <<>> /\ parts[n + 2] = <<>>
               /\ \A i \in 1..n : parts[i] # <<>>
               /\ ll = SumLen1(SubSeq(parts, 1, n)) + 1
               /\ (n = 0 => ll = 1)

C6_Witness ==
    /\ pc = "config" /\ Len(config) = 2 /\ ll = 5 /\ l = ll
    /\ pos = 16 + basepath[2] + 5 /\ basepath[2] = 2

\* C7: a file that ends inside a directory record is never answered with a
\* list of entries, in either mode.
C7_TruncatedFails ==
    (Done /\ HeadSound(db) /\ db.cut > 0) => outcome # "returned"

HasBadDisc(d) ==
    \E i \in 1..Len(d.records) : \E j \in 1..Len(d.records[i].children) :
       d.records[i].children[j].disc \notin {0, 1, 2}

\* C8: a child record whose discriminator is none of 0x00, 0x01, 0x02 makes
\* the load fail, in either mode.
C8_BadDiscFails ==
    (Done /\ HasBadDisc(db)) => outcome # "returned"

\* C9: no load ends in the NameError of detect_encoding, and a database
\* that is well-formed but for names of undetermined encoding is returned,
\* in either mode, those names in their raw-byte form.
C9_UndeterminedNoFailure ==
    /\ outcome # "NameError"
    /\ (Done /\ HeadSound(db) /\ NonEmpty(db.root) /\ RecordsSound(db)
             /\ AllNames(db, RealName))
         => (outcome = "returned" /\ contents = Expected(db))

\* C10: zts returns three values for every run, the empty one included, and
\* the sequential reader takes a child with an empty name as a subentry and
\* reads on.
C10_EmptyRun ==
    /\ (pc \in {"config", "sequential", "fast"}) => Len(basepath) = 3
    /\ (Done /\ ~fast_mode /\ HeadSound(db) /\ RecordsSound(db)
             /\ AllNames(db, PlainOrEmptyName))
         => /\ outcome = "returned"
            /\ \A i \in 1..Len(db.records) :
                 Len(contents[i].subentries) = Len(db.records[i].children)

====
